---- MODULE Spec2Model ----
(***************************************************************************)
(* Model of the Spotify -> Apple Music playlist converter (src/main.py).   *)
(*                                                                         *)
(* The main thread runs main() and convert_playlist(); the resolution      *)
(* tasks (search_apple_music, one per track) run on the worker threads of  *)
(* a ThreadPoolExecutor and pass through the @sleep_and_retry @limits      *)
(* decorators of the ratelimit package, which keep one process-wide        *)
(* (num_calls, last_reset) window per decorated function.                  *)
(*                                                                         *)
(* Positions are 1..N here (0..N-1 in the source).  Time is counted in     *)
(* ticks; the limiter's period is Period ticks.  Clock values are kept     *)
(* relative to the limiter's last reset, so the clock is never capped.     *)
(***************************************************************************)
EXTENDS Integers, Sequences, FiniteSets, TLC

\* ------------------------------------------------------------------ bounds
\* Longest playlist the source reader returns in the model.
MaxTracks == 3
\* Ticks per rate-limit period (APPLE_MUSIC_RATE_LIMIT[1] = 1 second).
Period == 2
\* The three program constants below are 10, 20 and 20 in the source
\* (src/main.py:33, :35 and :34).  The code is parametric in them; the model
\* instantiates them with small values so that a playlist of MaxTracks
\* tracks can saturate the pool and the rate-limit windows.
MAX_CONCURRENT_TASKS == 2
APPLE_MUSIC_RATE_LIMIT_CALLS == 2
SPOTIFY_RATE_LIMIT_CALLS == 2
\* Items in one page of the source API's track listing (100 in spotipy).
PageSize == 1

\* Most tracks of the playlist that come without an album name.
MaxEmptyAlbums == 1
\* Most search requests of one run that the destination API fails (HTTP
\* error, connection failure or a malformed body).
MaxFailedRequests == 1
\* Largest reading of the clock, in whole seconds, when a token is signed,
\* and most seconds the clock advances between two consecutive readings.
MaxNow == 1
MaxClockDrift == 1
\* The expiry horizon of line 144, in seconds.
TOKEN_LIFETIME == 15777000

\* ------------------------------------------------------------------ values
\* Python's None, as a task result and as an empty slot.
None == <<>>
ARTIST == "artist"
Albums == {"", "album"}
\* What the destination API can answer to one search request.
Responses == {"match", "no_match", "http_error", "conn_error", "malformed"}
Failures == {"http_error", "conn_error", "malformed"}
\* The playlist URL typed by the user, by the shape extract_playlist_id sees.
Urls == {"playlist_path", "si_query", "other"}

VARIABLES
    pc,                     \* position of the main thread
    config_ok,              \* all six required environment variables are set
    spotify_tracks,         \* the ordered track list (line 274)
    apple_music_track_ids,  \* slot array, then the compacted list (279, 301)
    not_found_tracks,       \* line 280
    submitted,              \* number of futures created so far (284-285)
    task,                   \* per position: state of its future / worker
    result,                 \* per position: value the task returned
    sleep_left,             \* per position: ticks left of time.sleep()
    num_calls,              \* limiter: attempts counted in this window
    elapsed,                \* limiter: clock() - last_reset, capped at Period
    window_requests,        \* search requests started in the limiter's window
    log,                    \* per position: the <<term, response>> requests
    slots,                  \* per position: rate-limit slots it was granted
    collected,              \* positions in the order as_completed gave them
    failed_requests,        \* search requests the API has failed so far
    rejected,               \* positions the limiter has turned away so far
    playlist_requests,      \* identifier lists POSTed to playlist creation
    payload,                \* claims of the token being signed (141-145)
    tracks,                 \* get_spotify_tracks: the items read so far
    results_next,           \* get_spotify_tracks: results['next'] is set
    source_window,          \* source limiter's window while the reader runs
    events                  \* what the main thread has done so far, in order

vars == <<pc, config_ok, spotify_tracks, apple_music_track_ids,
          not_found_tracks, submitted, task, result, sleep_left, num_calls,
          elapsed, window_requests, log, slots, collected,
          failed_requests, rejected, playlist_requests, payload, events,
          tracks, results_next, source_window>>

mainVars == <<pc, config_ok, spotify_tracks, apple_music_track_ids,
              not_found_tracks, submitted, collected, playlist_requests,
              payload, events>>
limiterVars == <<num_calls, elapsed, window_requests, sleep_left>>
taskVars == <<task, result, log, slots, failed_requests, rejected>>
sourceVars == <<tracks, results_next, source_window>>

\* ------------------------------------------------------------------ helpers
N == Len(spotify_tracks)
Positions == 1..N

Min(a, b) == IF a < b THEN a ELSE b

Range(s) == {s[k] : k \in 1..Len(s)}

\* The list comprehension of line 301: drop the None entries, keep the order.
Compact_KeepNone(ids) == ids

RECURSIVE Compact(_)
Compact(ids) ==
    IF ids = <<>> THEN <<>>
    ELSE IF Head(ids) # None THEN <<Head(ids)>> \o Compact(Tail(ids))
    ELSE Compact(Tail(ids))

\* ------------------------------------------------------- pure functions
\* setup_credentials: sys.exit(1) when a required variable is missing.
SetupCredentials(next) == IF config_ok THEN next ELSE "exit1"
\* What a call of setup_credentials adds to the main thread's history.
SetupCredentialsEvent ==
    IF config_ok THEN "config_checked" ELSE "config_missing"

\* extract_playlist_id: the id, or ValueError.
ExtractPlaylistId(url) ==
    IF url \in {"playlist_path", "si_query"} THEN "ok" ELSE "ValueError"

\* The two search terms of lines 191 and 195, as the parts the f-string
\* joins with spaces.  With an empty album the first term still has its
\* third (empty) part: "title artist " is not "title artist".
FirstTerm(track) == <<track[1], track[2], track[3]>>
SecondTerm_WithAlbum(track) == <<track[1], track[2], track[3]>>

SecondTerm(track) == <<track[1], track[2]>>

\* The identifier of the catalog's first song for a term.
SongId(term) == <<"song", term>>

PerformSearch_ErrorAsMatch(term, resp) ==
    [raised |-> resp = "malformed",
     value  |-> IF resp \in {"match", "http_error", "conn_error"}
                THEN SongId(term) ELSE None]

\* perform_search (lines 173-188): the first match's id, None when there is
\* no match or a requests.RequestException was caught; a body without the
\* expected keys raises KeyError, which the except clause does not catch.
PerformSearch(term, resp) ==
    [raised |-> resp = "malformed",
     value  |-> IF resp = "match" THEN SongId(term) ELSE None]

\* Python truthiness of a task result (line 292).
Truthy(track_id) == track_id # None

\* Line 332: transferred_tracks / total_tracks.
SuccessRate(transferred, total) ==
    IF total = 0 THEN "ZeroDivisionError" ELSE "ok"

\* ------------------------------------------------------------------ state
Executing(i) == task[i] \in {"limits", "sleeping", "first", "second"}
Finished(i) == task[i] \in {"returned", "raised"}
\* The positions whose future exists or is about to (allocated at line 279).
Tasks == DOMAIN task
NumExecuting == Cardinality({i \in Tasks : Executing(i)})

Init ==
    /\ pc = "main_setup"
    /\ config_ok \in BOOLEAN
    /\ spotify_tracks = <<>>
    /\ apple_music_track_ids = <<>>
    /\ not_found_tracks = <<>>
    /\ submitted = 0
    /\ task = <<>>
    /\ result = <<>>
    /\ sleep_left = <<>>
    /\ num_calls = 0
    /\ elapsed = 0
    /\ window_requests = 0
    /\ log = <<>>
    /\ slots = <<>>
    /\ collected = <<>>
    /\ failed_requests = 0
    /\ rejected = {}
    /\ playlist_requests = <<>>
    /\ payload = None
    /\ events = <<>>
    /\ tracks = <<>>
    /\ results_next = FALSE
    /\ source_window = None

\* ------------------------------------------------------------ main thread
MainSetupCredentials_NoCheck ==
    /\ pc = "main_setup"
    /\ pc' = "validate"
    /\ UNCHANGED <<config_ok, spotify_tracks, apple_music_track_ids,
                   not_found_tracks, submitted, collected, playlist_requests,
                   payload, events, limiterVars, taskVars, sourceVars>>

\* main, line 319.
MainSetupCredentials ==
    /\ pc = "main_setup"
    /\ pc' = SetupCredentials("validate")
    /\ events' = Append(events, SetupCredentialsEvent)
    /\ UNCHANGED <<config_ok, spotify_tracks, apple_music_track_ids,
                   not_found_tracks, submitted, collected, playlist_requests,
                   payload, limiterVars, taskVars, sourceVars>>

\* get_apple_music_token, lines 130-146: load the private key (any
\* exception is sys.exit, lines 149-151) and build the claims; the clock is
\* read once for iat and once more for exp.
BuildPayload(next) ==
    \/ /\ pc' = "exit1"
       /\ events' = Append(events, "sign_failed")
       /\ UNCHANGED payload
    \/ /\ pc' = next
       /\ \E now \in 0..MaxNow : \E drift \in 0..MaxClockDrift :
              payload' = [iat |-> now, exp |-> now + drift + TOKEN_LIFETIME]
       /\ UNCHANGED events

\* validate_apple_music_token, line 250: the call of get_apple_music_token.
ValidateBuildPayload ==
    /\ pc = "validate"
    /\ BuildPayload("validate_sign")
    /\ UNCHANGED <<config_ok, spotify_tracks, apple_music_track_ids,
                   not_found_tracks, submitted, collected, playlist_requests,
                   limiterVars, taskVars, sourceVars>>

\* main, lines 322-324, after the claims are built: jwt.encode (sys.exit on
\* failure), then validate_apple_music_token GETs the library and compares
\* the status to 200 (a RequestException counts as invalid).
ValidateAppleMusicToken ==
    /\ pc = "validate_sign"
    /\ \E outcome \in {"valid", "invalid", "sign_error"} :
           /\ pc' = IF outcome = "valid" THEN "convert_setup" ELSE "exit1"
           /\ events' = events \o
                  (CASE outcome = "sign_error" -> <<"sign_failed">>
                     [] outcome = "invalid" ->
                          <<"token_signed", "library_request",
                            "user_token_invalid">>
                     [] outcome = "valid" ->
                          <<"token_signed", "library_request",
                            "user_token_valid">>)
    /\ payload' = None
    /\ UNCHANGED <<config_ok, spotify_tracks, apple_music_track_ids,
                   not_found_tracks, submitted, collected, playlist_requests,
                   limiterVars, taskVars, sourceVars>>

\* convert_playlist, lines 272-273; ValueError is caught at line 333.
ConvertSetup ==
    /\ pc = "convert_setup"
    /\ \E url \in Urls :
           pc' = IF ExtractPlaylistId(url) = "ok"
                 THEN SetupCredentials("get_tracks")
                 ELSE SetupCredentials("exit1")
    /\ events' = Append(events, SetupCredentialsEvent)
    /\ UNCHANGED <<config_ok, spotify_tracks, apple_music_track_ids,
                   not_found_tracks, submitted, collected, playlist_requests,
                   payload, limiterVars, taskVars, sourceVars>>

\* One request of the reader to the source API, started now: it falls in
\* the source limiter's window when the period has not yet elapsed.
SourceRequest(window) ==
    [window EXCEPT !.requests = IF window.age < Period THEN @ + 1 ELSE @]

\* One page of the listing: k items and whether results['next'] is set.
\* Only the last page is short, and only an empty playlist has an empty
\* page.
ReadPage(window) ==
    /\ source_window' = SourceRequest(window)
    /\ events' = Append(events, "source_request")
    /\ \/ /\ pc' = "exit1"
          /\ UNCHANGED <<tracks, results_next>>
       \/ \E k \in 0..PageSize : \E more \in BOOLEAN :
          \E albums \in [1..k -> Albums] :
            LET first == Len(tracks)
                items == [i \in 1..k |-> <<first + i, ARTIST, albums[i]>>]
                all == tracks \o items
            IN  /\ more => k = PageSize
                /\ k = 0 => first = 0
                /\ Len(all) <= MaxTracks
                /\ more => Len(all) < MaxTracks
                /\ Cardinality({i \in 1..Len(all) : all[i][3] = ""})
                       <= MaxEmptyAlbums
                /\ tracks' = all
                /\ results_next' = more
                /\ pc' = "next_page"

\* Lines 82-107: the one pass through @sleep_and_retry @limits that the
\* call of get_spotify_tracks makes (the limiter was created when the
\* module was loaded, like the search limiter, and this is its first
\* call, so the slot is granted), then sp.playlist; SpotifyException ends
\* the run (lines 116-118).
GetSpotifyTracks ==
    /\ pc = "get_tracks"
    /\ LET age == IF Period - elapsed <= 0 THEN 0 ELSE elapsed
       IN  source_window' = SourceRequest([age |-> age, requests |-> 0])
    /\ events' = Append(events, "source_request")
    /\ \/ pc' = "exit1"
       \/ pc' = "playlist_tracks"
    /\ UNCHANGED <<config_ok, spotify_tracks, apple_music_track_ids,
                   not_found_tracks, submitted, collected, playlist_requests,
                   payload, tracks, results_next, limiterVars, taskVars>>

\* Lines 109-110: the first page of the listing.
PlaylistTracks ==
    /\ pc = "playlist_tracks"
    /\ ReadPage(source_window)
    /\ UNCHANGED <<config_ok, spotify_tracks, apple_music_track_ids,
                   not_found_tracks, submitted, collected, playlist_requests,
                   payload, limiterVars, taskVars>>

\* Lines 111-113: one more page while results['next'] is set.
NextPage ==
    /\ pc = "next_page"
    /\ results_next
    /\ ReadPage(source_window)
    /\ UNCHANGED <<config_ok, spotify_tracks, apple_music_track_ids,
                   not_found_tracks, submitted, collected, playlist_requests,
                   payload, limiterVars, taskVars>>

\* Lines 115 and 274: the reader returns the tracks; its locals are gone
\* and its limiter is not consulted again.
ReturnTracks ==
    /\ pc = "next_page"
    /\ ~results_next
    /\ spotify_tracks' = tracks
    /\ tracks' = <<>>
    /\ source_window' = None
    /\ pc' = "get_token"
    /\ UNCHANGED <<config_ok, apple_music_track_ids, not_found_tracks,
                   submitted, collected, playlist_requests, payload, events,
                   results_next, limiterVars, taskVars>>

\* convert_playlist, line 275: the call of get_apple_music_token.
ConvertBuildPayload ==
    /\ pc = "get_token"
    /\ BuildPayload("sign_token")
    /\ UNCHANGED <<config_ok, spotify_tracks, apple_music_track_ids,
                   not_found_tracks, submitted, collected, playlist_requests,
                   limiterVars, taskVars, sourceVars>>

\* Lines 147-148 and 275-280: sign the app token (sys.exit on failure),
\* then allocate the slot array and the not-found list.
GetAppleMusicToken ==
    /\ pc = "sign_token"
    /\ payload' = None
    /\ \/ /\ pc' = "exit1"
          /\ events' = Append(events, "sign_failed")
          /\ UNCHANGED <<apple_music_track_ids, task, result, sleep_left,
                         log, slots>>
       \/ /\ pc' = "submit"
          /\ events' = Append(events, "token_signed")
          /\ apple_music_track_ids' = [i \in Positions |-> None]
          /\ task' = [i \in Positions |-> "unsubmitted"]
          /\ result' = [i \in Positions |-> None]
          /\ sleep_left' = [i \in Positions |-> 0]
          /\ log' = [i \in Positions |-> <<>>]
          /\ slots' = [i \in Positions |-> 0]
    /\ not_found_tracks' = <<>>
    /\ UNCHANGED <<config_ok, spotify_tracks, submitted, collected,
                   playlist_requests, num_calls, elapsed, window_requests,
                   failed_requests, rejected, sourceVars>>

\* Lines 284-285: executor.submit of the next track, in list order.
Submit ==
    /\ pc = "submit"
    /\ submitted < N
    /\ submitted' = submitted + 1
    /\ task' = [task EXCEPT ![submitted + 1] = "queued"]
    /\ UNCHANGED <<pc, config_ok, spotify_tracks, apple_music_track_ids,
                   not_found_tracks, collected, playlist_requests, payload,
                   events, limiterVars, result, log, slots, failed_requests,
                   rejected, sourceVars>>

\* Line 287: every future exists; as_completed starts.
BeginCollect ==
    /\ pc = "submit"
    /\ submitted = N
    /\ pc' = "collect"
    /\ UNCHANGED <<config_ok, spotify_tracks, apple_music_track_ids,
                   not_found_tracks, submitted, collected, playlist_requests,
                   payload, events, limiterVars, taskVars, sourceVars>>

\* Line 293: the identifier goes to the slot of its own index.
RecordFound_ByCompletion(index) ==
    /\ apple_music_track_ids' =
           [apple_music_track_ids EXCEPT ![Len(collected) + 1] = result[index]]
    /\ UNCHANGED <<not_found_tracks, pc>>

RecordFound(index) ==
    /\ apple_music_track_ids' =
           [apple_music_track_ids EXCEPT ![index] = result[index]]
    /\ UNCHANGED <<not_found_tracks, pc>>

\* Line 295: a falsy result appends the track to the not-found list.
RecordNotFound_Prepend(index) ==
    /\ not_found_tracks' = <<spotify_tracks[index]>> \o not_found_tracks
    /\ UNCHANGED <<apple_music_track_ids, pc>>

RecordNotFound(index) ==
    /\ not_found_tracks' = Append(not_found_tracks, spotify_tracks[index])
    /\ UNCHANGED <<apple_music_track_ids, pc>>

\* Lines 296-298: future.result() re-raised the task's exception; it is
\* printed and the track is appended to the not-found list.
OnException_Propagate(index) ==
    /\ pc' = "crashed"
    /\ UNCHANGED <<apple_music_track_ids, not_found_tracks>>

OnException(index) ==
    /\ not_found_tracks' = Append(not_found_tracks, spotify_tracks[index])
    /\ UNCHANGED <<apple_music_track_ids, pc>>

\* Lines 287-298: as_completed yields a finished future not yet yielded.
Collect(index) ==
    /\ pc = "collect"
    /\ Finished(index)
    /\ index \notin Range(collected)
    /\ collected' = Append(collected, index)
    /\ IF task[index] = "raised" THEN OnException(index)
       ELSE IF Truthy(result[index]) THEN RecordFound(index)
       ELSE RecordNotFound(index)
    /\ UNCHANGED <<config_ok, spotify_tracks, submitted,
                   playlist_requests, payload, events, limiterVars, taskVars,
                   sourceVars>>

CompactIds_Early ==
    /\ pc = "collect"
    /\ apple_music_track_ids' = Compact(apple_music_track_ids)
    /\ pc' = "create"
    /\ UNCHANGED <<config_ok, spotify_tracks, not_found_tracks, submitted,
                   collected, playlist_requests, payload, events,
                   limiterVars, taskVars, sourceVars>>

\* Lines 299-301: the loop and the with block end, the slots are compacted.
CompactIds ==
    /\ pc = "collect"
    /\ Len(collected) = N
    /\ apple_music_track_ids' = Compact(apple_music_track_ids)
    /\ pc' = "create"
    /\ UNCHANGED <<config_ok, spotify_tracks, not_found_tracks, submitted,
                   collected, playlist_requests, payload, events,
                   limiterVars, taskVars, sourceVars>>

\* Line 303 (199-236): POST the playlist; a RequestException ends the run.
CreateAppleMusicPlaylist ==
    /\ pc = "create"
    /\ playlist_requests' = Append(playlist_requests, apple_music_track_ids)
    /\ \E created \in BOOLEAN : pc' = IF created THEN "report" ELSE "exit1"
    /\ UNCHANGED <<config_ok, spotify_tracks, apple_music_track_ids,
                   not_found_tracks, submitted, collected, payload, events,
                   limiterVars, taskVars, sourceVars>>

\* Lines 305-309 and 329-332: print the report, return, print the ratio.
\* ZeroDivisionError is not the ValueError line 333 catches.
Report ==
    /\ pc = "report"
    /\ pc' = IF SuccessRate(Len(apple_music_track_ids), N) = "ok"
             THEN "done" ELSE "crashed"
    /\ UNCHANGED <<config_ok, spotify_tracks, apple_music_track_ids,
                   not_found_tracks, submitted, collected, playlist_requests,
                   payload, events, limiterVars, taskVars, sourceVars>>

\* ---------------------------------------------------------- worker threads
StartTask_Unbounded(i) ==
    /\ task[i] = "queued"
    /\ \A j \in Tasks : j < i => task[j] # "queued"
    /\ task' = [task EXCEPT ![i] = "limits"]
    /\ UNCHANGED <<mainVars, sourceVars, limiterVars, result, log, slots, failed_requests,
                   rejected>>

\* A pool thread takes the oldest work item off the executor's queue.
StartTask(i) ==
    /\ task[i] = "queued"
    /\ \A j \in Tasks : j < i => task[j] # "queued"
    /\ NumExecuting < MAX_CONCURRENT_TASKS
    /\ task' = [task EXCEPT ![i] = "limits"]
    /\ UNCHANGED <<mainVars, sourceVars, limiterVars, result, log, slots, failed_requests,
                   rejected>>

Acquire_RaiseOnLimit(i) ==
    /\ task[i] = "limits"
    /\ LET period_remaining == Period - elapsed
           reset == period_remaining <= 0
           calls == (IF reset THEN 0 ELSE num_calls) + 1
       IN  /\ num_calls' = calls
           /\ elapsed' = IF reset THEN 0 ELSE elapsed
           /\ window_requests' = IF reset THEN 0 ELSE window_requests
           /\ IF calls > APPLE_MUSIC_RATE_LIMIT_CALLS
              THEN /\ task' = [task EXCEPT ![i] = "raised"]
                   /\ rejected' = rejected \cup {i}
                   /\ UNCHANGED <<slots, sleep_left>>
              ELSE /\ task' = [task EXCEPT ![i] = "first"]
                   /\ slots' = [slots EXCEPT ![i] = @ + 1]
                   /\ UNCHANGED <<sleep_left, rejected>>
    /\ UNCHANGED <<mainVars, sourceVars, result, log, failed_requests>>

Acquire_NoReset(i) ==
    /\ task[i] = "limits"
    /\ LET period_remaining == Period - elapsed
           calls == num_calls + 1
       IN  /\ num_calls' = calls
           /\ IF calls > APPLE_MUSIC_RATE_LIMIT_CALLS
              THEN /\ task' = [task EXCEPT ![i] = "sleeping"]
                   /\ sleep_left' = [sleep_left EXCEPT ![i] = period_remaining]
                   /\ rejected' = rejected \cup {i}
                   /\ UNCHANGED slots
              ELSE /\ task' = [task EXCEPT ![i] = "first"]
                   /\ slots' = [slots EXCEPT ![i] = @ + 1]
                   /\ UNCHANGED <<sleep_left, rejected>>
    /\ UNCHANGED <<mainVars, sourceVars, result, log, failed_requests,
                   elapsed, window_requests>>

\* @limits (line 154), under the decorator's lock: reset the window when
\* the period has elapsed, count the attempt, raise RateLimitException when
\* the count exceeds the limit; @sleep_and_retry (line 153) catches it and
\* sleeps for the period_remaining it carries.
Acquire(i) ==
    /\ task[i] = "limits"
    /\ LET period_remaining == Period - elapsed
           reset == period_remaining <= 0
           calls == (IF reset THEN 0 ELSE num_calls) + 1
       IN  /\ num_calls' = calls
           /\ elapsed' = IF reset THEN 0 ELSE elapsed
           /\ window_requests' = IF reset THEN 0 ELSE window_requests
           /\ IF calls > APPLE_MUSIC_RATE_LIMIT_CALLS
              THEN /\ task' = [task EXCEPT ![i] = "sleeping"]
                   /\ sleep_left' = [sleep_left EXCEPT ![i] = period_remaining]
                   /\ rejected' = rejected \cup {i}
                   /\ UNCHANGED slots
              ELSE /\ task' = [task EXCEPT ![i] = "first"]
                   /\ slots' = [slots EXCEPT ![i] = @ + 1]
                   /\ UNCHANGED <<sleep_left, rejected>>
    /\ UNCHANGED <<mainVars, sourceVars, result, log, failed_requests>>

\* time.sleep returned: the while loop of sleep_and_retry calls again.
Wake(i) ==
    /\ task[i] = "sleeping"
    /\ sleep_left[i] = 0
    /\ task' = [task EXCEPT ![i] = "limits"]
    /\ UNCHANGED <<mainVars, sourceVars, limiterVars, result, log, slots, failed_requests,
                   rejected>>

\* One call of perform_search: the request starts now, resp is the answer.
\* It falls in the limiter's current window [last_reset, last_reset + period)
\* when the period has not yet elapsed.
Request(i, term, resp) ==
    /\ resp \in Failures => failed_requests < MaxFailedRequests
    /\ failed_requests' =
           IF resp \in Failures THEN failed_requests + 1 ELSE failed_requests
    /\ log' = [log EXCEPT ![i] = Append(@, <<term, resp>>)]
    /\ window_requests' =
           IF elapsed < Period THEN window_requests + 1 ELSE window_requests

\* Lines 191-194.
FirstSearch(i) ==
    /\ task[i] = "first"
    /\ \E resp \in Responses :
         LET term == FirstTerm(spotify_tracks[i])
             r == PerformSearch(term, resp)
         IN  /\ Request(i, term, resp)
             /\ IF r.raised
                THEN /\ task' = [task EXCEPT ![i] = "raised"]
                     /\ UNCHANGED result
                ELSE IF r.value = None
                THEN /\ task' = [task EXCEPT ![i] = "second"]
                     /\ UNCHANGED result
                ELSE /\ task' = [task EXCEPT ![i] = "returned"]
                     /\ result' = [result EXCEPT ![i] = r.value]
    /\ UNCHANGED <<mainVars, sourceVars, num_calls, elapsed, sleep_left, slots, rejected>>

\* Lines 195-197.
SecondSearch(i) ==
    /\ task[i] = "second"
    /\ \E resp \in Responses :
         LET term == SecondTerm(spotify_tracks[i])
             r == PerformSearch(term, resp)
         IN  /\ Request(i, term, resp)
             /\ IF r.raised
                THEN /\ task' = [task EXCEPT ![i] = "raised"]
                     /\ UNCHANGED result
                ELSE /\ task' = [task EXCEPT ![i] = "returned"]
                     /\ result' = [result EXCEPT ![i] = r.value]
    /\ UNCHANGED <<mainVars, sourceVars, num_calls, elapsed, sleep_left, slots, rejected>>

\* One tick of the clock: windows and sleeps age.
Tick ==
    /\ elapsed' = Min(elapsed + 1, Period)
    /\ sleep_left' = [i \in DOMAIN sleep_left |->
                          IF sleep_left[i] > 0 THEN sleep_left[i] - 1 ELSE 0]
    /\ source_window' =
           IF source_window = None THEN None
           ELSE [source_window EXCEPT !.age = Min(@ + 1, Period)]
    /\ UNCHANGED <<mainVars, tracks, results_next, num_calls,
                   window_requests, taskVars>>

Next ==
    \/ MainSetupCredentials
    \/ ValidateBuildPayload
    \/ ValidateAppleMusicToken
    \/ ConvertSetup
    \/ GetSpotifyTracks
    \/ PlaylistTracks
    \/ NextPage
    \/ ReturnTracks
    \/ ConvertBuildPayload
    \/ GetAppleMusicToken
    \/ Submit
    \/ BeginCollect
    \/ \E i \in Tasks : Collect(i)
    \/ CompactIds
    \/ CreateAppleMusicPlaylist
    \/ Report
    \/ \E i \in Tasks : StartTask(i)
    \/ \E i \in Tasks : Acquire(i)
    \/ \E i \in Tasks : Wake(i)
    \/ \E i \in Tasks : FirstSearch(i)
    \/ \E i \in Tasks : SecondSearch(i)
    \/ Tick

Spec == Init /\ [][Next]_vars

\* ------------------------------------------------------------ properties
\* convert_playlist has left the collection loop and compacted the slots.
Compacted ==
    \/ pc \in {"create", "report", "done", "crashed"}
    \/ playlist_requests # <<>>

\* What the task of position i handed to its future.
Found(i) == task[i] = "returned" /\ result[i] # None
NotFound(i) == Finished(i) /\ ~Found(i)

\* The identifiers of the found positions 1..k, in increasing position.
RECURSIVE FoundUpTo(_)
FoundUpTo(k) ==
    IF k = 0 THEN <<>>
    ELSE FoundUpTo(k - 1) \o (IF Found(k) THEN <<result[k]>> ELSE <<>>)

\* Number of filled slots among the first k of the slot array.
RECURSIVE Filled(_)
Filled(k) ==
    IF k = 0 THEN 0
    ELSE Filled(k - 1) + (IF apple_music_track_ids[k] # None THEN 1 ELSE 0)

\* The positions of s that were not found, in the order of s.
RECURSIVE NotFoundOf(_)
NotFoundOf(s) ==
    IF s = <<>> THEN <<>>
    ELSE (IF NotFound(Head(s)) THEN <<spotify_tracks[Head(s)]>> ELSE <<>>)
         \o NotFoundOf(Tail(s))

Occurrences(s, x) == Cardinality({k \in 1..Len(s) : s[k] = x})

\* C1: once collection is over, the number of identifiers in the compacted
\* list plus the number of not-found entries is N; while collecting, every
\* yielded position is in exactly one of the two (a filled slot or one
\* entry of the not-found list) and no other position is in either.
C1_EveryTrackCountedOnce ==
    /\ Compacted =>
           Len(apple_music_track_ids) + Len(not_found_tracks) = N
    /\ pc = "collect" =>
           /\ Filled(N) + Len(not_found_tracks) = Len(collected)
           /\ \A i \in Positions :
                  LET filled == apple_music_track_ids[i] # None
                      listed == Occurrences(not_found_tracks, spotify_tracks[i])
                  IN  IF i \in Range(collected)
                      THEN (filled /\ listed = 0) \/ (~filled /\ listed = 1)
                      ELSE ~filled /\ listed = 0

\* A run of MaxTracks tracks with one found, one without a match and one
\* whose task raised, collected out of position order, and compacted.
C1_Witness ==
    /\ pc = "create"
    /\ N = MaxTracks
    /\ \E i, j, k \in Positions :
           /\ Found(i)
           /\ task[j] = "returned" /\ result[j] = None
           /\ task[k] = "raised"
    /\ \E a, b \in 1..Len(collected) : a < b /\ collected[a] > collected[b]

\* C2: the identifier list handed to playlist creation is the identifiers
\* of the found positions in increasing position, whatever the order in
\* which the futures completed and were collected.
C2_IdentifiersInPositionOrder ==
    /\ Compacted => apple_music_track_ids = FoundUpTo(N)
    /\ \A r \in 1..Len(playlist_requests) : playlist_requests[r] = FoundUpTo(N)

\* Two found positions whose futures were collected in decreasing position,
\* and the playlist request has been sent.
C2_Witness ==
    /\ playlist_requests # <<>>
    /\ \E a, b \in 1..Len(collected) :
           /\ a < b
           /\ collected[a] > collected[b]
           /\ Found(collected[a])
           /\ Found(collected[b])

\* C3: no window of T seconds holds more than C started search requests;
\* stated for the T-second window that starts at the limiter's last reset.
C3_WindowHoldsAtMostCRequests ==
    window_requests <= APPLE_MUSIC_RATE_LIMIT_CALLS

\* C4: every search request is preceded by its own rate-limit slot: a
\* resolution has been granted at least as many slots as it sent requests,
\* so two attempts take two slots.
C4_OneSlotPerRequest ==
    \A i \in Tasks : Len(log[i]) <= slots[i]

\* C5: a track with an empty album is resolved with exactly one request,
\* whatever that request returned.
C5_EmptyAlbumOneRequest ==
    \A i \in Tasks :
        spotify_tracks[i][3] = "" =>
            /\ Len(log[i]) <= 1
            /\ Finished(i) => Len(log[i]) = 1

\* C6: for a track with an album, the first request carries title, artist
\* and album; a match ends the resolution with that match's identifier; no
\* match leads to exactly one more request, with title and artist only,
\* whose match (or None, without one) is what the resolution returns; there
\* are never more than two requests.
C6_TwoTierFallback ==
    \A i \in Tasks :
        LET track == spotify_tracks[i]
            n == Len(log[i])
        IN  /\ n <= 2
            /\ track[3] # "" =>
              /\ Finished(i) => n >= 1
              /\ n >= 1 => log[i][1][1] = <<track[1], track[2], track[3]>>
              /\ (n >= 1 /\ log[i][1][2] = "match") =>
                     /\ n = 1
                     /\ task[i] = "returned"
                     /\ result[i] = SongId(<<track[1], track[2], track[3]>>)
              /\ (n >= 1 /\ log[i][1][2] = "no_match") =>
                     /\ ~(Finished(i) /\ n = 1)
                     /\ n = 1 => task[i] = "second"
                     /\ n = 2 => log[i][2][1] = <<track[1], track[2]>>
                     /\ (n = 2 /\ log[i][2][2] = "match") =>
                            /\ task[i] = "returned"
                            /\ result[i] = SongId(<<track[1], track[2]>>)
                     /\ (n = 2 /\ log[i][2][2] = "no_match") =>
                            /\ task[i] = "returned"
                            /\ result[i] = None

\* A track with an album whose first request found nothing and whose
\* second request matched.
C6_Witness ==
    \E i \in Tasks :
        /\ spotify_tracks[i][3] # ""
        /\ Len(log[i]) = 2
        /\ log[i][1][2] = "no_match"
        /\ log[i][2][2] = "match"
        /\ task[i] = "returned"

\* C7: search_apple_music never raises: whatever the API answers, the call
\* returns an identifier or None.
C7_SearchNeverRaises ==
    \A i \in Tasks : task[i] # "raised"

\* C8: a task that raised is recorded as not found and nothing else
\* changes: the run is not aborted, every other yielded position is recorded
\* by its own task's result alone, and every future is still collected
\* before the playlist is created.
C8_FaultIsolated ==
    (\E i \in Tasks : task[i] = "raised") =>
        /\ \/ pc \in {"submit", "collect", "create", "report", "done"}
           \/ pc = "exit1" /\ playlist_requests # <<>>
        /\ pc = "collect" =>
               \A j \in Range(collected) :
                   LET listed == Occurrences(not_found_tracks, spotify_tracks[j])
                   IN  IF Found(j)
                       THEN apple_music_track_ids[j] = result[j] /\ listed = 0
                       ELSE apple_music_track_ids[j] = None /\ listed = 1
        /\ Compacted =>
               /\ \A j \in Positions : Finished(j) /\ j \in Range(collected)
               /\ apple_music_track_ids = FoundUpTo(N)
               /\ \A j \in Positions :
                      Occurrences(not_found_tracks, spotify_tracks[j])
                          = IF Found(j) THEN 0 ELSE 1

\* The first future collected had raised, a sibling of smaller position was
\* found and collected after it, and the run ended normally.
C8_Witness ==
    /\ pc = "done"
    /\ N >= 2
    /\ task[collected[1]] = "raised"
    /\ \E j \in Positions : Found(j) /\ slots[j] = 1 /\ j < collected[1]

\* C9 as claimed: the not-found report is in increasing original position
\* (a track's title is its position).
C9_NotFoundInPositionOrder ==
    \A a, b \in 1..Len(not_found_tracks) :
        a < b => not_found_tracks[a][1] < not_found_tracks[b][1]

\* C9 as amended: the not-found report lists the unresolved tracks in the
\* order in which as_completed yielded their futures, each once.
C9_NotFoundInCompletionOrder ==
    not_found_tracks = NotFoundOf(collected)

\* Two unresolved tracks reported against their positions' order.
C9_Witness ==
    /\ pc = "done"
    /\ \E a, b \in 1..Len(not_found_tracks) :
           a < b /\ not_found_tracks[a][1] > not_found_tracks[b][1]

\* C10: with an empty track list the run computes its success ratio
\* without a division by zero and ends normally.
C10_EmptyRunEndsNormally ==
    (spotify_tracks = <<>> /\ playlist_requests # <<>>) => pc # "crashed"

\* The answer to the last request position i has sent so far.
LastResponse(i) == log[i][Len(log[i])][2]

\* C11: with an empty track list the identifier list and the not-found
\* list stay empty and no network call follows the reading of the tracks:
\* no search request and no playlist-creation request.
C11_EmptyRunNoNetworkCall ==
    spotify_tracks = <<>> =>
        /\ apple_music_track_ids = <<>>
        /\ not_found_tracks = <<>>
        /\ \A i \in Tasks : log[i] = <<>>
        /\ playlist_requests = <<>>

\* C12 as claimed: a track one of whose search requests failed with a
\* network or HTTP error is reported not found and contributes no
\* identifier.
C12_FailedRequestNotFound ==
    \A i \in Range(collected) :
        (\E k \in 1..Len(log[i]) : log[i][k][2] \in {"http_error", "conn_error"})
            => /\ Occurrences(not_found_tracks, spotify_tracks[i]) = 1
               /\ ~Found(i)

\* C12 as amended: a track whose last search request failed with a network
\* or HTTP error is reported not found, contributes no identifier, and the
\* run goes on; a failed first request is followed by the fallback request.
C12_LastRequestFailedNotFound ==
    \A i \in Tasks :
        /\ (Len(log[i]) = 1 /\ LastResponse(i) \in {"http_error", "conn_error"})
               => task[i] = "second"
        /\ (Len(log[i]) = 2 /\ LastResponse(i) \in {"http_error", "conn_error"})
               => /\ task[i] = "returned"
                  /\ result[i] = None
                  /\ pc # "crashed"
                  /\ i \in Range(collected) =>
                         Occurrences(not_found_tracks, spotify_tracks[i]) = 1
                  /\ Compacted =>
                         /\ Len(collected) = N
                         /\ apple_music_track_ids = FoundUpTo(N)

\* The fallback request of a track failed, the track was reported not found
\* and a sibling collected after it was found.
C12_Witness ==
    /\ pc = "done"
    /\ \E a, b \in 1..Len(collected) :
           /\ a < b
           /\ Len(log[collected[a]]) = 2
           /\ LastResponse(collected[a]) \in {"http_error", "conn_error"}
           /\ Occurrences(not_found_tracks, spotify_tracks[collected[a]]) = 1
           /\ Found(collected[b])

\* C13: never more than MAX_CONCURRENT_TASKS resolutions execute at once,
\* also for playlists longer than the pool; a submitted resolution that is
\* not executing and not finished waits in the queue.
C13_PoolBound ==
    /\ NumExecuting <= MAX_CONCURRENT_TASKS
    /\ \A i \in Tasks :
           (i <= submitted /\ ~Executing(i) /\ ~Finished(i)) => task[i] = "queued"
    /\ \A i \in Tasks : i > submitted => task[i] = "unsubmitted"

\* The pool is full and a task of a playlist longer than the pool waits.
C13_Witness ==
    /\ N > MAX_CONCURRENT_TASKS
    /\ NumExecuting = MAX_CONCURRENT_TASKS
    /\ \E i \in Tasks : task[i] = "queued"

\* C17: the playlist-creation request is sent at most once, after every
\* future has finished and been collected, and it carries the compacted
\* list: no None, one identifier per found position.
C17_PlaylistCreatedOnceAfterAll ==
    /\ Len(playlist_requests) <= 1
    /\ playlist_requests # <<>> =>
           /\ \A i \in Positions : Finished(i) /\ i \in Range(collected)
           /\ Len(collected) = N
           /\ None \notin Range(playlist_requests[1])
           /\ Len(playlist_requests[1])
                  = Cardinality({i \in Positions : Found(i)})
    /\ pc \in {"submit", "collect"} => playlist_requests = <<>>

\* The request was sent for a full playlist with a found and an unresolved
\* track.
C17_Witness ==
    /\ Len(playlist_requests) = 1
    /\ N = MaxTracks
    /\ \E i, j \in Positions : Found(i) /\ NotFound(j)

\* C14: a worker the limiter turned away is only delayed: while it sleeps
\* it has sent nothing and sleeps no longer than the window lasts; once it
\* has finished it was granted its slot and sent its requests; an exception
\* of its task comes from a request's answer, never from the limiter; and
\* it is reported not found only when its last request brought no match.
C14_RejectionOnlyDelays ==
    \A i \in rejected :
        /\ task[i] \in {"sleeping", "limits", "first", "second", "returned",
                        "raised"}
        /\ task[i] \in {"sleeping", "limits"} =>
               /\ slots[i] = 0
               /\ log[i] = <<>>
               /\ result[i] = None
               /\ i \notin Range(collected)
        /\ (task[i] = "sleeping" /\ sleep_left[i] > 0) =>
               sleep_left[i] = Period - elapsed
        /\ Finished(i) => slots[i] = 1 /\ Len(log[i]) >= 1
        /\ task[i] = "raised" => LastResponse(i) = "malformed"
        /\ Occurrences(not_found_tracks, spotify_tracks[i]) > 0 =>
               /\ Len(log[i]) >= 1
               /\ LastResponse(i) # "match"
        /\ pc # "crashed"

\* A worker that was turned away by the full window, slept, was granted a
\* slot and found its track; the run ended normally.
C14_Witness ==
    /\ pc = "done"
    /\ \E i \in rejected : Found(i) /\ apple_music_track_ids # <<>>

\* The main thread did a, then b, then c (other steps may lie between).
HappenedInOrder(a, b, c) ==
    \E j \in 1..Len(events) :
        /\ events[j] = b
        /\ \E i \in 1..(j - 1) : events[i] = a
        /\ \E k \in (j + 1)..Len(events) : events[k] = c

\* C16: a resolution task is submitted, and a search request sent, only
\* after the configuration check passed, then the user token was validated,
\* then the app token was signed; a failure of any of the three ends the run
\* with no task submitted; with a configuration value missing the run makes
\* no network call at all.
C16_ChecksBeforeSearch ==
    /\ (submitted > 0 \/ \E i \in Tasks : log[i] # <<>>) =>
           HappenedInOrder("config_checked", "user_token_valid",
                           "token_signed")
    /\ Range(events) \cap {"config_missing", "user_token_invalid",
                           "sign_failed"} # {} =>
           /\ pc = "exit1"
           /\ submitted = 0
           /\ \A i \in Tasks : task[i] = "unsubmitted" /\ log[i] = <<>>
           /\ playlist_requests = <<>>
    /\ ~config_ok =>
           /\ Range(events) \subseteq {"config_missing"}
           /\ pc \in {"main_setup", "exit1"}
           /\ Tasks = {}
           /\ playlist_requests = <<>>

\* A search request has been sent in a run that passed the three steps.
C16_Witness ==
    /\ \E i \in Tasks : log[i] # <<>>
    /\ Len(events) >= 4
    /\ events[4] = "user_token_valid"
    /\ events[Len(events)] = "token_signed"

\* C18: the expiry of every token that get_apple_music_token builds is
\* exactly TOKEN_LIFETIME seconds after its issued-at time.
C18_ExpiryIsLifetimeAfterIssue ==
    payload # None => payload.exp - payload.iat = TOKEN_LIFETIME

\* C19: while the reader runs, no more than SPOTIFY_RATE_LIMIT_CALLS
\* requests to the source API start within the source limiter's period.
C19_SourceWindowHoldsAtMostLimit ==
    source_window # None =>
        source_window.requests <= SPOTIFY_RATE_LIMIT_CALLS

\* The batch of convert_playlist: 0 before the first future exists, 1 while
\* futures are submitted and collected, 2 once the slots are compacted.
BatchPhase ==
    IF Compacted THEN 2
    ELSE IF submitted > 0 \/ pc = "collect" THEN 1
    ELSE 0

\* Every future has finished and its outcome has been recorded.
BatchComplete ==
    /\ Compacted
    /\ Len(collected) = N
    /\ \A i \in Positions : Finished(i) /\ i \in Range(collected)
    /\ Len(apple_music_track_ids) + Len(not_found_tracks) = N

\* Steps the main thread has left at most, the loops counted by what they
\* have still to read, submit and collect.
MainRank ==
    CASE pc = "collect"         -> 3 + (N - Len(collected))
      [] pc = "submit"          -> 4 + N + (N - submitted)
      [] pc = "create"          -> 2
      [] pc = "report"          -> 1
      [] pc = "sign_token"      -> 5 + 2 * MaxTracks
      [] pc = "get_token"       -> 6 + 2 * MaxTracks
      [] pc = "next_page"       -> 7 + 2 * MaxTracks + (MaxTracks - Len(tracks))
      [] pc = "playlist_tracks" -> 8 + 3 * MaxTracks
      [] pc = "get_tracks"      -> 9 + 3 * MaxTracks
      [] pc = "convert_setup"   -> 10 + 3 * MaxTracks
      [] pc = "validate_sign"   -> 11 + 3 * MaxTracks
      [] pc = "validate"        -> 12 + 3 * MaxTracks
      [] pc = "main_setup"      -> 13 + 3 * MaxTracks
      [] OTHER                  -> 0

\* Steps task i has left at most: before the limiter grants its slot (the
\* grant weighs more than all the steps the other tasks may regain when the
\* window is reset), or, after that, before it finishes.  A call made when
\* the period has elapsed resets the window and is granted; one made
\* before may be turned away once, and the sleep then lasts until the
\* period has elapsed.
TaskRank(i) ==
    LET grant == 3 * MaxTracks + 1
        state == task[i]
    IN  IF state \in {"returned", "raised"} THEN 0
        ELSE IF state = "second" THEN 1
        ELSE IF state = "first" THEN 2
        ELSE IF state = "limits"
             THEN grant + (IF elapsed < Period THEN 3 ELSE 1)
        ELSE IF state = "sleeping"
             THEN grant + (IF sleep_left[i] = 0 /\ elapsed < Period
                           THEN 4 ELSE 2)
        ELSE IF state = "queued" THEN grant + 5
        ELSE grant + 6

\* The tasks' part of the variant: their steps, then the ticks they have
\* still to sleep.
RECURSIVE TaskRankUpTo(_)
TaskRankUpTo(k) ==
    IF k = 0 THEN 0
    ELSE TaskRankUpTo(k - 1)
             + ((MaxTracks + 2) * Period + 1) * TaskRank(k) + sleep_left[k]

\* Ticks after which the clock changes nothing any more.
TimeRank ==
    (Period - elapsed)
        + (IF source_window = None THEN 0 ELSE Period - source_window.age)

\* The variant of the run: main thread first, then the tasks, then the
\* clock.
Rank ==
    ((MaxTracks + 2) * Period + 1) * (3 * MaxTracks + 1) * (MaxTracks + 3)
            * MainRank
        + TaskRankUpTo(Len(task)) + TimeRank

\* C15: once the batch is started it cannot stop before it is complete and
\* cannot run forever: while futures are submitted and collected some
\* thread or the clock can take a step, and every step lowers a variant
\* that is never negative, so under fair scheduling every task finishes and
\* the batch reaches Complete, where all N outcomes are recorded; the batch
\* never moves back from Complete to Running or from Running to Pending.
C15_BatchCompletes ==
    /\ [][Rank' < Rank]_vars
    /\ [](Rank >= 0)
    /\ [](pc \in {"submit", "collect"} => ENABLED <<Next>>_vars)
    /\ [][BatchPhase' >= BatchPhase]_vars
    /\ [](BatchPhase = 2 => BatchComplete)

\* A batch in which a worker was turned away by the limiter is complete.
C15_Witness ==
    /\ BatchComplete
    /\ N = MaxTracks
    /\ rejected # {}

====
